---- MODULE Spec2Model ----
(***************************************************************************)
(* Model of ShotsManager / AnimatedCamera                                  *)
(* (module/src/utils/CameraShotsManager.ts).                               *)
(*                                                                         *)
(* Times of the manager (delta, playheadTime, scrub time, effective        *)
(* durations) are integers, in ticks.  An action's local time and a        *)
(* camera pose are integers in sub-ticks, Unit sub-ticks to the tick, so   *)
(* that delta * timeScale is exact for every time-scale the model can set. *)
(* A time-scale is the reduced fraction num/den.  Arithmetic is exact      *)
(* (the rounding of IEEE doubles is not modelled).                         *)
(*                                                                         *)
(* The three.js AnimationMixer / AnimationAction used by AnimatedCamera    *)
(* is modelled by what the calls made in the source do to one LoopOnce,    *)
(* clampWhenFinished action: reset(), play(), stop(), paused, time,        *)
(* timeScale, mixer.update(dt) and its synchronous "finished" event.       *)
(* User callbacks (frame scripts, onCompleted) are opaque: they are        *)
(* counted, and do not call back into the manager.                         *)
(*                                                                         *)
(* The second part models the reconnecting client syncWithBlender          *)
(* (README, "Usage" / "Connection Details"): its three closure variables,  *)
(* the WebSocket objects it creates and the timeouts it sets, driven by    *)
(* the events of the browser (open, message, error, close, timer expiry)   *)
(* and by the cleanup function it returns.  The two parts share no state:  *)
(* each specification leaves the other part in its initial state.          *)
(***************************************************************************)
EXTENDS Integers, Sequences, FiniteSets, TLC

\* ------------------------------------------------------------- bounds
MaxNewDuration == 2    \* largest newDuration given to setShotDuration()
MaxDelta == 2          \* largest delta given to update()
MaxPlayhead == 4       \* update() is not called once playheadTime would pass this
MaxScrubTime == 4      \* largest time given to scrub()
MaxNegativeScrub == 1  \* scrub() is given the negative times down to minus this
MaxScripts == 1        \* most frame scripts registered
MaxCalls == 5          \* most calls made on one manager
MaxAttempts == 3       \* most connect() runs of one syncWithBlender client
MaxMessages == 2       \* most messages received by one client

\* ------------------------------------------------- constructor inputs
\* cameras / clips with matching names; "x" is a name matching no clip.
ShotIds == {"a", "b"}
UnknownName == "x"
Names == ShotIds \cup {UnknownName}
\* lists of names given to config(): empty, one shot, two shots in either
\* order (one with an unknown name to drop), three entries with a shot repeated
ConfigChoices ==
    { <<>>, <<"a">>, <<"b", "a">>, <<"a", UnknownName, "b">>, <<"a", "b", "a">> }
\* clip.duration of each clip, in ticks
ClipDuration == [s \in ShotIds |-> IF s = "a" THEN 1 ELSE 2]
\* (frame, baseFPS) pairs given to addFrameScript
DefaultFPS == 24
FrameChoices == {<<24, DefaultFPS>>, <<36, 12>>}

RECURSIVE Gcd(_, _)
Gcd(x, y) == IF y = 0 THEN x ELSE Gcd(y, x % y)

RECURSIVE LcmUpTo(_)
LcmUpTo(n) == IF n <= 1 THEN 1 ELSE LET l == LcmUpTo(n - 1) IN (l * n) \div Gcd(l, n)

\* sub-ticks per tick
Unit == LcmUpTo(MaxNewDuration)

Fraction(n, d) == [num |-> n \div Gcd(n, d), den |-> d \div Gcd(n, d)]

\* pose of a camera no action has written to
OrigPose == -1

VARIABLES
    shots,              \* ShotsManager.shots: one AnimatedCamera per camera
    sequenceDefined,    \* ShotsManager.sequence !== undefined
    sequence,           \* ShotsManager.sequence (shot ids), <<>> while undefined
    currentShotIndex,   \* 0-based, -1 initially
    isPlaying,
    targetCamera,       \* TRUE when an output camera is assigned
    frameScripts,       \* sequence of [frame, baseFPS, called]
    playheadTime,
    onShotsCompleted,   \* TRUE when a completion callback is stored
    loop,
    hist                \* history of the run (not program state), see Hist0

\* syncWithBlender
VARIABLES
    ws,                 \* index in `sockets` of the WebSocket in ws, 0 for null
    shouldReconnect,
    reconnectTimeout,   \* id of the timeout in reconnectTimeout, 0 for null
    sockets,            \* the WebSockets created so far: the state of each
    timers,             \* ids of the timeouts set and neither fired nor cleared
    sync                \* counters of the run (not program state), see Sync0

managerVars == <<shots, sequenceDefined, sequence, currentShotIndex, isPlaying,
                 targetCamera, frameScripts, playheadTime, onShotsCompleted,
                 loop, hist>>

syncVars == <<ws, shouldReconnect, reconnectTimeout, sockets, timers, sync>>

vars == <<shots, sequenceDefined, sequence, currentShotIndex, isPlaying,
          targetCamera, frameScripts, playheadTime, onShotsCompleted,
          loop, hist,
          ws, shouldReconnect, reconnectTimeout, sockets, timers, sync>>

\* ------------------------------------------------------ AnimatedCamera
\* State of one AnimatedCamera after its constructor.
NewAnimatedCamera ==
    [ time      |-> 0,                \* action.time, sub-ticks
      paused    |-> FALSE,            \* action.paused
      active    |-> FALSE,            \* the action is among the mixer's active actions
      timeScale |-> Fraction(1, 1),   \* action.timeScale
      hasFinish |-> FALSE,            \* onFinishCallback is set
      pose      |-> OrigPose ]        \* pose of the camera: clip time last applied

\* action.reset()
ActionReset(sh) == [sh EXCEPT !.paused = FALSE, !.time = 0]

\* action.play(): the mixer activates the action
ActionPlay(sh) == [sh EXCEPT !.active = TRUE]

\* action.stop(): the mixer deactivates the action, which gives the camera
\* its original pose back, then reset()
ActionStop(sh) ==
    ActionReset([sh EXCEPT !.active = FALSE,
                           !.pose = IF sh.active THEN OrigPose ELSE sh.pose])

\* the action is started and neither paused nor stopped (action.isRunning())
IsRunning(sh) == sh.active /\ ~sh.paused

\* AnimatedCamera.setDuration
SetDuration(sh, id, newDuration) ==
    [sh EXCEPT !.timeScale = Fraction(ClipDuration[id], newDuration)]

\* AnimatedCamera.getEffectiveDuration, ticks
GetEffectiveDuration(sh, id) ==
    (ClipDuration[id] * sh.timeScale.den) \div sh.timeScale.num

\* AnimatedCamera.play
AnimatedCameraPlayNoReset(sh) == ActionPlay([sh EXCEPT !.hasFinish = TRUE])
AnimatedCameraPlay(sh) == ActionPlay(ActionReset([sh EXCEPT !.hasFinish = TRUE]))

\* AnimatedCamera.stop
AnimatedCameraStop(sh) == ActionStop(sh)

Min(x, y) == IF x < y THEN x ELSE y
Max(x, y) == IF x > y THEN x ELSE y

\* AnimatedCamera.scrubTo(time), time in ticks of effective time
ScrubTo(sh, id, time) ==
    LET s1 == [ActionPlay(ActionReset(sh)) EXCEPT !.paused = TRUE]
        actualAnimationTime == (time * Unit * sh.timeScale.num) \div sh.timeScale.den
        t  == Max(0, Min(actualAnimationTime, ClipDuration[id] * Unit))
        \* mixer.update(0): the paused action is evaluated at action.time
    IN  [s1 EXCEPT !.time = t, !.pose = t]

\* AnimatedCamera.update(delta) = mixer.update(delta), up to the point where
\* the mixer dispatches "finished": the new action state, the clip time the
\* mixer will apply to the camera, and whether "finished" is dispatched.
MixerAdvance(sh, id, delta) ==
    LET dt  == IF sh.paused THEN 0
               ELSE (delta * Unit * sh.timeScale.num) \div sh.timeScale.den
        end == ClipDuration[id] * Unit
        t   == sh.time + dt
    IN  IF ~sh.active
          THEN [shot |-> sh, applied |-> FALSE, clipTime |-> 0, finished |-> FALSE]
        ELSE IF dt = 0
          THEN [shot |-> sh, applied |-> TRUE, clipTime |-> sh.time, finished |-> FALSE]
        ELSE IF t >= end
          THEN [shot |-> [sh EXCEPT !.time = end, !.paused = TRUE],
                applied |-> TRUE, clipTime |-> end, finished |-> TRUE]
        ELSE   [shot |-> [sh EXCEPT !.time = t],
                applied |-> TRUE, clipTime |-> t, finished |-> FALSE]

\* -------------------------------------------------------- ShotsManager
\* What one call did, beside its effect on the program state.
Ev0 ==
    [ fault        |-> FALSE,   \* it raised a TypeError
      ret          |-> TRUE,    \* its return value (setShotDuration); play(): it started
      finished     |-> 0,       \* times it ran onShotFinished
      completedNow |-> 0,       \* times it invoked the completion callback
      fired        |-> <<>>,    \* frame scripts it invoked, in order
      started      |-> <<>>,    \* indices whose shot playCurrentShot started, in order
      sel          |-> <<>>,    \* scrub: <<index selected, scrubTime>>
      synced       |-> <<>>,    \* poses copied to the output camera: <<shot id, pose>>
      trace        |-> <<>> ]   \* the steps it took, in order: see Step

\* One step of a call: what |-> "sync" (pose n of shot's camera copied to the
\* output camera), "playhead" (playheadTime set to n), "advance" (mixer of
\* shot updated), "finished" (onShotFinished entered), "start" (shot started
\* at index n), "completed" (completion callback invoked), "script" (frame
\* script n invoked)
Step(what, shot, n) == [what |-> what, shot |-> shot, n |-> n]

\* History of the play() session: what happened since the last successful
\* play().  Kept beside the program state, read by no handler.
Hist0 ==
    [ completedCalls |-> 0,       \* completion callback invocations
      fireCount      |-> <<>>,    \* invocations of each frame script
      startLog       |-> <<>>,    \* indices whose shot playCurrentShot started
      wraps          |-> 0,       \* loop restarts
      completions    |-> 0,       \* times the sequence ran to completion
      syncs          |-> 0,       \* poses update() copied to the output camera
      playSeq        |-> <<>>,    \* the sequence play() started, while playing
      calls          |-> 0,       \* calls made so far
      note           |-> "" ]     \* what the last call was, where the state does
                                  \* not tell: "play" / "update" (it returned at
                                  \* its guard), "scrub" (its time was negative)

\* The manager as one record, so that the handlers compose as functions.
St ==
    [ shots |-> shots, sequenceDefined |-> sequenceDefined, sequence |-> sequence,
      currentShotIndex |-> currentShotIndex, isPlaying |-> isPlaying,
      targetCamera |-> targetCamera,
      frameScripts |-> frameScripts, playheadTime |-> playheadTime,
      onShotsCompleted |-> onShotsCompleted, loop |-> loop, hist |-> hist,
      ev |-> Ev0 ]

\* this.shots.find(s => s.clip.name === name): clip names are the shot ids
FindShot(name) == IF name \in ShotIds THEN <<name>> ELSE <<>>

\* ShotsManager.config: the loop over shotsNames
RECURSIVE Resolve(_)
Resolve(shotsNames) ==
    IF shotsNames = <<>> THEN <<>>
    ELSE FindShot(Head(shotsNames)) \o Resolve(Tail(shotsNames))

ConfigOpAppends(m, shotsNames) ==
    [m EXCEPT !.sequenceDefined = TRUE, !.sequence = @ \o Resolve(shotsNames)]
ConfigOp(m, shotsNames) ==
    [m EXCEPT !.sequenceDefined = TRUE, !.sequence = Resolve(shotsNames)]

\* ShotsManager.addFrameScript: time = frame / baseFPS, kept as the pair
AddFrameScriptOp(m, frame, baseFPS) ==
    [m EXCEPT !.frameScripts = Append(@, [frame |-> frame, baseFPS |-> baseFPS,
                                           called |-> FALSE]),
              !.hist.fireCount = Append(@, 0)]

\* ShotsManager.setShotDuration
SetShotDurationOpInSequence(m, shotName, newDuration) ==
    IF ~\E k \in 1..Len(m.sequence) : m.sequence[k] = shotName
    THEN [m EXCEPT !.ev.ret = FALSE]
    ELSE [m EXCEPT !.shots[shotName] = SetDuration(@, shotName, newDuration),
                   !.ev.ret = TRUE]
SetShotDurationOp(m, shotName, newDuration) ==
    IF FindShot(shotName) = <<>>
    THEN [m EXCEPT !.ev.ret = FALSE]
    ELSE [m EXCEPT !.shots[shotName] = SetDuration(@, shotName, newDuration),
                   !.ev.ret = TRUE]

\* ShotsManager.playCurrentShot
PlayCurrentShot(m) ==
    IF ~m.sequenceDefined \/ m.currentShotIndex >= Len(m.sequence)
    THEN m
    ELSE LET id == m.sequence[m.currentShotIndex + 1]
         IN  [m EXCEPT !.shots[id] = AnimatedCameraPlay(@),
                       !.ev.started = Append(@, m.currentShotIndex),
                       !.ev.trace = Append(@, Step("start", id, m.currentShotIndex)),
                       !.hist.startLog = Append(@, m.currentShotIndex)]

\* ShotsManager.onShotFinished
OnShotFinishedOffByOne(m) ==
    LET m1 == [m EXCEPT !.currentShotIndex = @ + 1, !.ev.finished = @ + 1,
                        !.ev.trace = Append(@, Step("finished", "", 0))]
    IN  IF m1.currentShotIndex > Len(m1.sequence)
        THEN IF m1.loop
             THEN PlayCurrentShot([m1 EXCEPT !.currentShotIndex = 0,
                                             !.hist.wraps = @ + 1])
             ELSE [m1 EXCEPT !.isPlaying = FALSE,
                             !.hist.playSeq = <<>>,
                             !.hist.completions = @ + 1,
                             !.ev.completedNow =
                                 @ + (IF m1.onShotsCompleted THEN 1 ELSE 0),
                             !.ev.trace =
                                 IF m1.onShotsCompleted
                                 THEN Append(@, Step("completed", "", 0)) ELSE @,
                             !.hist.completedCalls =
                                 @ + (IF m1.onShotsCompleted THEN 1 ELSE 0)]
        ELSE PlayCurrentShot(m1)
OnShotFinished(m) ==
    LET m1 == [m EXCEPT !.currentShotIndex = @ + 1, !.ev.finished = @ + 1,
                        !.ev.trace = Append(@, Step("finished", "", 0))]
    IN  IF m1.currentShotIndex >= Len(m1.sequence)
        THEN IF m1.loop
             THEN PlayCurrentShot([m1 EXCEPT !.currentShotIndex = 0,
                                             !.hist.wraps = @ + 1])
             ELSE [m1 EXCEPT !.isPlaying = FALSE,
                             !.hist.playSeq = <<>>,
                             !.hist.completions = @ + 1,
                             !.ev.completedNow =
                                 @ + (IF m1.onShotsCompleted THEN 1 ELSE 0),
                             !.ev.trace =
                                 IF m1.onShotsCompleted
                                 THEN Append(@, Step("completed", "", 0)) ELSE @,
                             !.hist.completedCalls =
                                 @ + (IF m1.onShotsCompleted THEN 1 ELSE 0)]
        ELSE PlayCurrentShot(m1)

\* ShotsManager.syncCamera(camera, target): the pose of shot id's camera is
\* copied to the output camera, which the manager never reads
SyncCamera(m, id) ==
    [m EXCEPT !.ev.synced = Append(@, <<id, m.shots[id].pose>>),
              !.ev.trace = Append(@, Step("sync", id, m.shots[id].pose))]

\* ShotsManager.play
PlayOpResetsPlayhead(m, onCompleted) ==
    IF ~m.sequenceDefined \/ Len(m.sequence) = 0
    THEN [m EXCEPT !.playheadTime = 0, !.ev.ret = FALSE]
    ELSE PlayCurrentShot(
           [m EXCEPT !.playheadTime = 0,
                     !.onShotsCompleted = onCompleted,
                     !.frameScripts =
                         [i \in DOMAIN @ |-> [@[i] EXCEPT !.called = FALSE]],
                     !.isPlaying = TRUE,
                     !.currentShotIndex = 0,
                     !.hist.completedCalls = 0,
                     !.hist.fireCount = [i \in DOMAIN @ |-> 0],
                     !.hist.startLog = <<>>,
                     !.hist.wraps = 0,
                     !.hist.completions = 0,
                     !.hist.syncs = 0,
                     !.hist.playSeq = m.sequence])
PlayOpKeepsFlags(m, onCompleted) ==
    IF ~m.sequenceDefined \/ Len(m.sequence) = 0
    THEN [m EXCEPT !.ev.ret = FALSE]
    ELSE PlayCurrentShot(
           [m EXCEPT !.playheadTime = 0,
                     !.onShotsCompleted = onCompleted,
                     !.isPlaying = TRUE,
                     !.currentShotIndex = 0,
                     !.hist.completedCalls = 0,
                     !.hist.fireCount = [i \in DOMAIN @ |-> 0],
                     !.hist.startLog = <<>>,
                     !.hist.wraps = 0,
                     !.hist.completions = 0,
                     !.hist.syncs = 0,
                     !.hist.playSeq = m.sequence])
PlayOp(m, onCompleted) ==
    IF ~m.sequenceDefined \/ Len(m.sequence) = 0
    THEN [m EXCEPT !.ev.ret = FALSE]
    ELSE PlayCurrentShot(
           [m EXCEPT !.playheadTime = 0,
                     !.onShotsCompleted = onCompleted,
                     !.frameScripts =
                         [i \in DOMAIN @ |-> [@[i] EXCEPT !.called = FALSE]],
                     !.isPlaying = TRUE,
                     !.currentShotIndex = 0,
                     !.hist.completedCalls = 0,
                     !.hist.fireCount = [i \in DOMAIN @ |-> 0],
                     !.hist.startLog = <<>>,
                     !.hist.wraps = 0,
                     !.hist.completions = 0,
                     !.hist.syncs = 0,
                     !.hist.playSeq = m.sequence])

\* script.time < t, with script.time = frame / baseFPS and baseFPS > 0
ScriptTimeBefore(script, t) == script.frame < t * script.baseFPS

\* ShotsManager.update: the loop over frameScripts, from script i on
RECURSIVE CheckFrameScriptsNoMark(_, _)
CheckFrameScriptsNoMark(m, i) ==
    IF i > Len(m.frameScripts) THEN m
    ELSE IF ScriptTimeBefore(m.frameScripts[i], m.playheadTime)
            /\ ~m.frameScripts[i].called
         THEN CheckFrameScriptsNoMark(
                  [m EXCEPT !.ev.fired = Append(@, i),
                            !.ev.trace = Append(@, Step("script", "", i)),
                            !.hist.fireCount[i] = @ + 1], i + 1)
         ELSE CheckFrameScriptsNoMark(m, i + 1)
RECURSIVE CheckFrameScripts(_, _)
CheckFrameScripts(m, i) ==
    IF i > Len(m.frameScripts) THEN m
    ELSE IF ScriptTimeBefore(m.frameScripts[i], m.playheadTime)
            /\ ~m.frameScripts[i].called
         THEN CheckFrameScripts(
                  [m EXCEPT !.frameScripts[i].called = TRUE,
                            !.ev.fired = Append(@, i),
                            !.ev.trace = Append(@, Step("script", "", i)),
                            !.hist.fireCount[i] = @ + 1], i + 1)
         ELSE CheckFrameScripts(m, i + 1)

\* AnimatedCamera.update(delta) of shot id, with the "finished" listener
\* running inside mixer.update, before the mixer applies the clip time
ShotUpdateCarriesOver(m, id, delta) ==
    LET r  == MixerAdvance(m.shots[id], id, delta)
        m1 == [m EXCEPT !.shots[id] = r.shot,
                        !.ev.trace = Append(@, Step("advance", id, delta))]
        m2 == IF r.finished /\ r.shot.hasFinish THEN OnShotFinished(m1) ELSE m1
        m3 == IF r.applied THEN [m2 EXCEPT !.shots[id].pose = r.clipTime] ELSE m2
    IN  IF r.finished /\ m3.isPlaying /\ m3.currentShotIndex < Len(m3.sequence)
        THEN LET id2 == m3.sequence[m3.currentShotIndex + 1]
             IN  [m3 EXCEPT !.shots[id2] = MixerAdvance(@, id2, delta).shot]
        ELSE m3
ShotUpdate(m, id, delta) ==
    LET r  == MixerAdvance(m.shots[id], id, delta)
        m1 == [m EXCEPT !.shots[id] = r.shot,
                        !.ev.trace = Append(@, Step("advance", id, delta))]
        m2 == IF r.finished /\ r.shot.hasFinish THEN OnShotFinished(m1) ELSE m1
    IN  IF r.applied THEN [m2 EXCEPT !.shots[id].pose = r.clipTime] ELSE m2

\* ShotsManager.update
UpdateReturnsEarly(m) ==
    ~m.isPlaying \/ ~m.sequenceDefined \/ m.currentShotIndex < 0

UpdateOpSyncsAfterAdvance(m, delta) ==
    IF UpdateReturnsEarly(m)
    THEN m
    ELSE IF m.targetCamera /\ m.currentShotIndex >= Len(m.sequence)
    THEN [m EXCEPT !.ev.fault = TRUE]
    ELSE LET id == m.sequence[m.currentShotIndex + 1]
             m2 == [m EXCEPT !.playheadTime = @ + delta,
                             !.ev.trace = Append(@, Step("playhead", "", m.playheadTime + delta))]
             m3 == IF m2.currentShotIndex < Len(m2.sequence)
                   THEN ShotUpdate(m2, id, delta)
                   ELSE m2
             m4 == IF m.targetCamera
                   THEN [SyncCamera(m3, id) EXCEPT !.hist.syncs = @ + 1]
                   ELSE m3
         IN  CheckFrameScripts(m4, 1)
UpdateOpIgnoresPlaying(m, delta) ==
    IF ~m.sequenceDefined \/ m.currentShotIndex < 0
    THEN m
    ELSE IF m.targetCamera /\ m.currentShotIndex >= Len(m.sequence)
    THEN [m EXCEPT !.ev.fault = TRUE]
    ELSE LET m1 == IF m.targetCamera
                   THEN [SyncCamera(m, m.sequence[m.currentShotIndex + 1])
                            EXCEPT !.hist.syncs = @ + 1]
                   ELSE m
             m2 == [m1 EXCEPT !.playheadTime = @ + delta,
                              !.ev.trace = Append(@, Step("playhead", "", m1.playheadTime + delta))]
             m3 == IF m2.currentShotIndex < Len(m2.sequence)
                   THEN ShotUpdate(m2, m2.sequence[m2.currentShotIndex + 1], delta)
                   ELSE m2
         IN  CheckFrameScripts(m3, 1)
UpdateOp(m, delta) ==
    IF UpdateReturnsEarly(m)
    THEN m
    ELSE IF m.targetCamera /\ m.currentShotIndex >= Len(m.sequence)
    \* this.sequence[this.currentShotIndex] is undefined: reading .camera throws
    THEN [m EXCEPT !.ev.fault = TRUE]
    ELSE LET m1 == IF m.targetCamera
                   THEN [SyncCamera(m, m.sequence[m.currentShotIndex + 1])
                            EXCEPT !.hist.syncs = @ + 1]
                   ELSE m
             m2 == [m1 EXCEPT !.playheadTime = @ + delta,
                              !.ev.trace = Append(@, Step("playhead", "", m1.playheadTime + delta))]
             m3 == IF m2.currentShotIndex < Len(m2.sequence)
                   THEN ShotUpdate(m2, m2.sequence[m2.currentShotIndex + 1], delta)
                   ELSE m2
         IN  CheckFrameScripts(m3, 1)

\* ShotsManager.scrub: "Stop all shots first"
StopAll(m) ==
    [m EXCEPT !.shots = [id \in ShotIds |->
        IF \E k \in 1..Len(m.sequence) : m.sequence[k] = id
        THEN AnimatedCameraStop(m.shots[id]) ELSE m.shots[id]]]

\* ShotsManager.scrub: the loop that finds the shot active at `time`, from
\* index i (0-based) on; <<index, scrubTime>>, or <<>> when no interval matches
RECURSIVE FindTargetInclusiveEnd(_, _, _, _)
FindTargetInclusiveEnd(m, i, accumulatedTime, time) ==
    IF i >= Len(m.sequence) THEN <<>>
    ELSE LET id           == m.sequence[i + 1]
             clipDuration == GetEffectiveDuration(m.shots[id], id)
             shotStart    == accumulatedTime
             shotEnd      == accumulatedTime + clipDuration
         IN  IF time >= shotStart /\ time <= shotEnd
             THEN <<i, time - shotStart>>
             ELSE FindTargetInclusiveEnd(m, i + 1, accumulatedTime + clipDuration, time)
RECURSIVE FindTarget(_, _, _, _)
FindTarget(m, i, accumulatedTime, time) ==
    IF i >= Len(m.sequence) THEN <<>>
    ELSE LET id           == m.sequence[i + 1]
             clipDuration == GetEffectiveDuration(m.shots[id], id)
             shotStart    == accumulatedTime
             shotEnd      == accumulatedTime + clipDuration
         IN  IF time >= shotStart /\ time < shotEnd
             THEN <<i, time - shotStart>>
             ELSE FindTarget(m, i + 1, accumulatedTime + clipDuration, time)

\* ShotsManager.scrub: the target, with the "at or beyond the end" case
ScrubTargetClampsToStart(m, time) ==
    LET found == FindTarget(m, 0, 0, Max(0, time))
        last  == m.sequence[Len(m.sequence)]
    IN  IF found # <<>> THEN found
        ELSE <<Len(m.sequence) - 1, GetEffectiveDuration(m.shots[last], last)>>
ScrubTarget(m, time) ==
    LET found == FindTarget(m, 0, 0, time)
        last  == m.sequence[Len(m.sequence)]
    IN  IF found # <<>> THEN found
        ELSE <<Len(m.sequence) - 1, GetEffectiveDuration(m.shots[last], last)>>

\* ShotsManager.scrub
ScrubOpSeeksPlayhead(m, time) ==
    IF ~m.sequenceDefined \/ Len(m.sequence) = 0
    THEN m
    ELSE LET m1  == StopAll([m EXCEPT !.isPlaying = FALSE, !.hist.playSeq = <<>>,
                                      !.playheadTime = time])
             tgt == ScrubTarget(m1, time)
             id  == m1.sequence[tgt[1] + 1]
             m2  == [m1 EXCEPT !.shots[id] = ScrubTo(@, id, tgt[2]),
                               !.ev.sel = tgt]
         IN  SyncCamera(m2, id)
ScrubOp(m, time) ==
    IF ~m.sequenceDefined \/ Len(m.sequence) = 0
    THEN m
    ELSE LET m1  == StopAll([m EXCEPT !.isPlaying = FALSE, !.hist.playSeq = <<>>])
             tgt == ScrubTarget(m1, time)
             id  == m1.sequence[tgt[1] + 1]
             m2  == [m1 EXCEPT !.shots[id] = ScrubTo(@, id, tgt[2]),
                               !.ev.sel = tgt]
         IN  SyncCamera(m2, id)

\* ----------------------------------------------------- syncWithBlender
\* Counters of the run of one client.  Kept beside the program state, read
\* by no handler (timersSet also numbers the timeouts).
Sync0 ==
    [ timersSet      |-> 0,    \* setTimeout calls
      createFailures |-> 0,    \* new WebSocket(...) calls that threw
      received       |-> 0,    \* message events
      delivered      |-> 0 ]   \* invocations of callback

\* The client as one record, so that the handlers compose as functions.
Client ==
    [ ws |-> ws, shouldReconnect |-> shouldReconnect,
      reconnectTimeout |-> reconnectTimeout, sockets |-> sockets,
      timers |-> timers, sync |-> sync ]

\* clearTimeout(id)
ClearTimeout(c, id) == [c EXCEPT !.timers = @ \ {id}]

\* reconnectTimeout = setTimeout(connect, 2000)
SetReconnectTimeout(c) ==
    LET id == c.sync.timersSet + 1
    IN  [c EXCEPT !.reconnectTimeout = id,
                  !.timers = @ \cup {id},
                  !.sync.timersSet = id]

\* `if (shouldReconnect) reconnectTimeout = setTimeout(connect, 2000)`, in
\* ws.onclose and in the catch block of connect
RetryLater(c) == IF c.shouldReconnect THEN SetReconnectTimeout(c) ELSE c

\* connect(); `created` is FALSE when new WebSocket(...) throws
Connect(c, created) ==
    LET c1 == IF c.reconnectTimeout # 0
              THEN [ClearTimeout(c, c.reconnectTimeout) EXCEPT !.reconnectTimeout = 0]
              ELSE c
    IN  IF created
        THEN [c1 EXCEPT !.sockets = Append(@, "connecting"),
                        !.ws = Len(c1.sockets) + 1]
        ELSE RetryLater([c1 EXCEPT !.sync.createFailures = @ + 1])

\* ws.onclose of socket i
OnCloseNoRetry(c, i) == [c EXCEPT !.sockets[i] = "closed"]
OnClose(c, i) == RetryLater([c EXCEPT !.sockets[i] = "closed"])

\* ws.onerror of socket i: logs the error, nothing else
OnErrorRetries(c, i) == RetryLater(c)
OnError(c, i) == c

\* ws.onmessage: JSON.parse, then callback(data); a parse error is caught
OnMessage(c, valid) ==
    [c EXCEPT !.sync.received = @ + 1,
              !.sync.delivered = @ + (IF valid THEN 1 ELSE 0)]

\* ws.close(): starts the closing handshake of a socket that is not closed
SocketCloseCall(state) ==
    IF state \in {"connecting", "open"} THEN "closing" ELSE state

\* the cleanup function returned by syncWithBlender
CleanupKeepsTimer(c) ==
    LET c1 == [c EXCEPT !.shouldReconnect = FALSE]
    IN  IF c1.ws # 0
        THEN [c1 EXCEPT !.sockets[c1.ws] = SocketCloseCall(@)]
        ELSE c1
Cleanup(c) ==
    LET c1 == [c EXCEPT !.shouldReconnect = FALSE]
        c2 == IF c1.reconnectTimeout # 0
              THEN ClearTimeout(c1, c1.reconnectTimeout)
              ELSE c1
    IN  IF c2.ws # 0
        THEN [c2 EXCEPT !.sockets[c2.ws] = SocketCloseCall(@)]
        ELSE c2

\* connect() runs made so far
Attempts(c) == Len(c.sockets) + c.sync.createFailures

\* ------------------------------------------------------------- actions
\* syncWithBlender has not been called
NotSyncing ==
    /\ ws = 0
    /\ shouldReconnect = TRUE
    /\ reconnectTimeout = 0
    /\ sockets = <<>>
    /\ timers = {}
    /\ sync = Sync0

\* the deltas given to update() and the times given to scrub()
Deltas == 0..MaxDelta
ScrubTimes == 0..MaxScrubTime
NegativeScrubTimes == {0 - t : t \in 1..MaxNegativeScrub}

Init ==
    /\ shots = [id \in ShotIds |-> NewAnimatedCamera]
    /\ sequenceDefined = FALSE
    /\ sequence = <<>>
    /\ currentShotIndex = -1
    /\ isPlaying = FALSE
    /\ targetCamera = FALSE
    /\ frameScripts = <<>>
    /\ playheadTime = 0
    /\ onShotsCompleted = FALSE
    /\ loop = FALSE
    /\ hist = Hist0
    /\ NotSyncing

Config ==
    /\ hist.calls < MaxCalls
    /\ \E shotsNames \in ConfigChoices :
        \E r \in {ConfigOp(St, shotsNames)} :
            /\ shots' = r.shots
            /\ sequenceDefined' = r.sequenceDefined
            /\ sequence' = r.sequence
            /\ currentShotIndex' = r.currentShotIndex
            /\ isPlaying' = r.isPlaying
            /\ targetCamera' = r.targetCamera
            /\ frameScripts' = r.frameScripts
            /\ playheadTime' = r.playheadTime
            /\ onShotsCompleted' = r.onShotsCompleted
            /\ loop' = r.loop
            /\ hist' = [r.hist EXCEPT !.calls = @ + 1,
                                    !.note = ""]
            /\ UNCHANGED syncVars

AddFrameScript ==
    /\ hist.calls < MaxCalls
    /\ Len(frameScripts) < MaxScripts
    /\ \E fc \in FrameChoices :
        \E r \in {AddFrameScriptOp(St, fc[1], fc[2])} :
            /\ shots' = r.shots
            /\ sequenceDefined' = r.sequenceDefined
            /\ sequence' = r.sequence
            /\ currentShotIndex' = r.currentShotIndex
            /\ isPlaying' = r.isPlaying
            /\ targetCamera' = r.targetCamera
            /\ frameScripts' = r.frameScripts
            /\ playheadTime' = r.playheadTime
            /\ onShotsCompleted' = r.onShotsCompleted
            /\ loop' = r.loop
            /\ hist' = [r.hist EXCEPT !.calls = @ + 1,
                                    !.note = ""]
            /\ UNCHANGED syncVars

SetShotDuration ==
    /\ hist.calls < MaxCalls
    /\ \E shotName \in Names, newDuration \in 1..MaxNewDuration :
        \E r \in {SetShotDurationOp(St, shotName, newDuration)} :
            /\ shots' = r.shots
            /\ sequenceDefined' = r.sequenceDefined
            /\ sequence' = r.sequence
            /\ currentShotIndex' = r.currentShotIndex
            /\ isPlaying' = r.isPlaying
            /\ targetCamera' = r.targetCamera
            /\ frameScripts' = r.frameScripts
            /\ playheadTime' = r.playheadTime
            /\ onShotsCompleted' = r.onShotsCompleted
            /\ loop' = r.loop
            /\ hist' = [r.hist EXCEPT !.calls = @ + 1,
                                    !.note = ""]
            /\ UNCHANGED syncVars

Play ==
    /\ hist.calls < MaxCalls
    /\ \E onCompleted \in BOOLEAN :
        \E r \in {PlayOp(St, onCompleted)} :
            /\ shots' = r.shots
            /\ sequenceDefined' = r.sequenceDefined
            /\ sequence' = r.sequence
            /\ currentShotIndex' = r.currentShotIndex
            /\ isPlaying' = r.isPlaying
            /\ targetCamera' = r.targetCamera
            /\ frameScripts' = r.frameScripts
            /\ playheadTime' = r.playheadTime
            /\ onShotsCompleted' = r.onShotsCompleted
            /\ loop' = r.loop
            /\ hist' = [r.hist EXCEPT !.calls = @ + 1,
                                    !.note = IF r.ev.ret THEN "" ELSE "play"]
            /\ UNCHANGED syncVars

Scrub ==
    /\ hist.calls < MaxCalls
    /\ \E time \in ScrubTimes \cup NegativeScrubTimes :
        \E r \in {ScrubOp(St, time)} :
            /\ shots' = r.shots
            /\ sequenceDefined' = r.sequenceDefined
            /\ sequence' = r.sequence
            /\ currentShotIndex' = r.currentShotIndex
            /\ isPlaying' = r.isPlaying
            /\ targetCamera' = r.targetCamera
            /\ frameScripts' = r.frameScripts
            /\ playheadTime' = r.playheadTime
            /\ onShotsCompleted' = r.onShotsCompleted
            /\ loop' = r.loop
            /\ hist' = [r.hist EXCEPT !.calls = @ + 1,
                                    !.note = IF time < 0 /\ r.ev.sel # <<>>
                                            THEN "scrub" ELSE ""]
            /\ UNCHANGED syncVars

\* update(delta); the playhead is kept within MaxPlayhead
Update ==
    /\ hist.calls < MaxCalls
    /\ \E delta \in {d \in Deltas : playheadTime + d <= MaxPlayhead} :
        \E r \in {UpdateOp(St, delta)} :
            /\ shots' = r.shots
            /\ sequenceDefined' = r.sequenceDefined
            /\ sequence' = r.sequence
            /\ currentShotIndex' = r.currentShotIndex
            /\ isPlaying' = r.isPlaying
            /\ targetCamera' = r.targetCamera
            /\ frameScripts' = r.frameScripts
            /\ playheadTime' = r.playheadTime
            /\ onShotsCompleted' = r.onShotsCompleted
            /\ loop' = r.loop
            /\ hist' = [r.hist EXCEPT !.calls = @ + 1,
                                    !.note = IF UpdateReturnsEarly(St) THEN "update" ELSE ""]
            /\ UNCHANGED syncVars

\* the embedder assigns the public loop flag
SetLoop ==
    /\ hist.calls < MaxCalls
    /\ \E v \in BOOLEAN :
        \E r \in {[St EXCEPT !.loop = v]} :
            /\ shots' = r.shots
            /\ sequenceDefined' = r.sequenceDefined
            /\ sequence' = r.sequence
            /\ currentShotIndex' = r.currentShotIndex
            /\ isPlaying' = r.isPlaying
            /\ targetCamera' = r.targetCamera
            /\ frameScripts' = r.frameScripts
            /\ playheadTime' = r.playheadTime
            /\ onShotsCompleted' = r.onShotsCompleted
            /\ loop' = r.loop
            /\ hist' = [r.hist EXCEPT !.calls = @ + 1,
                                    !.note = ""]
            /\ UNCHANGED syncVars

\* the embedder assigns (or clears) the public targetCamera
SetTargetCamera ==
    /\ hist.calls < MaxCalls
    /\ \E v \in BOOLEAN :
        \E r \in {[St EXCEPT !.targetCamera = v]} :
            /\ shots' = r.shots
            /\ sequenceDefined' = r.sequenceDefined
            /\ sequence' = r.sequence
            /\ currentShotIndex' = r.currentShotIndex
            /\ isPlaying' = r.isPlaying
            /\ targetCamera' = r.targetCamera
            /\ frameScripts' = r.frameScripts
            /\ playheadTime' = r.playheadTime
            /\ onShotsCompleted' = r.onShotsCompleted
            /\ loop' = r.loop
            /\ hist' = [r.hist EXCEPT !.calls = @ + 1,
                                    !.note = ""]
            /\ UNCHANGED syncVars

Next ==
    \/ Config
    \/ AddFrameScript
    \/ SetShotDuration
    \/ Play
    \/ Scrub
    \/ Update
    \/ SetLoop
    \/ SetTargetCamera

Spec == Init /\ [][Next]_vars

\* ------------------------------------------------ actions of the client
\* the state after syncWithBlender(callback) has returned: connect() ran once
SyncInit ==
    /\ shots = [id \in ShotIds |-> NewAnimatedCamera]
    /\ sequenceDefined = FALSE
    /\ sequence = <<>>
    /\ currentShotIndex = -1
    /\ isPlaying = FALSE
    /\ targetCamera = FALSE
    /\ frameScripts = <<>>
    /\ playheadTime = 0
    /\ onShotsCompleted = FALSE
    /\ loop = FALSE
    /\ hist = Hist0
    /\ \E created \in BOOLEAN :
        LET r == Connect([ ws |-> 0, shouldReconnect |-> TRUE,
                           reconnectTimeout |-> 0, sockets |-> <<>>,
                           timers |-> {}, sync |-> Sync0 ], created)
        IN  /\ ws = r.ws
            /\ shouldReconnect = r.shouldReconnect
            /\ reconnectTimeout = r.reconnectTimeout
            /\ sockets = r.sockets
            /\ timers = r.timers
            /\ sync = r.sync

\* the open event of socket i
SocketOpen ==
    /\ \E i \in 1..Len(sockets) :
        /\ sockets[i] = "connecting"
        /\ sockets' = [sockets EXCEPT ![i] = "open"]
    /\ UNCHANGED <<ws, shouldReconnect, reconnectTimeout, timers, sync>>
    /\ UNCHANGED managerVars

\* a message event of socket i, with data that parses or not
SocketMessage ==
    /\ sync.received < MaxMessages
    /\ \E i \in 1..Len(sockets), valid \in BOOLEAN :
        /\ sockets[i] = "open"
        /\ sync' = OnMessage(Client, valid).sync
    /\ UNCHANGED <<ws, shouldReconnect, reconnectTimeout, sockets, timers>>
    /\ UNCHANGED managerVars

\* the connection of socket i fails: its error event (onerror only logs);
\* the close event follows
SocketError ==
    /\ \E i \in 1..Len(sockets) :
        /\ sockets[i] \in {"connecting", "open"}
        /\ \E r \in {OnError(Client, i)} :
               /\ ws' = r.ws
               /\ shouldReconnect' = r.shouldReconnect
               /\ reconnectTimeout' = r.reconnectTimeout
               /\ sockets' = [r.sockets EXCEPT ![i] = "closing"]
               /\ timers' = r.timers
               /\ sync' = r.sync
    /\ UNCHANGED managerVars

\* the close event of socket i: the server closed the connection, or the
\* connection failed, or the closing handshake ended
SocketClose ==
    /\ \E i \in 1..Len(sockets) :
        /\ sockets[i] \in {"open", "closing"}
        /\ \E r \in {OnClose(Client, i)} :
               /\ ws' = r.ws
               /\ shouldReconnect' = r.shouldReconnect
               /\ reconnectTimeout' = r.reconnectTimeout
               /\ sockets' = r.sockets
               /\ timers' = r.timers
               /\ sync' = r.sync
    /\ UNCHANGED managerVars

\* a timeout expires and runs connect()
TimerFires ==
    /\ Attempts(Client) < MaxAttempts
    /\ \E id \in timers, created \in BOOLEAN :
        \E r \in {Connect(ClearTimeout(Client, id), created)} :
            /\ ws' = r.ws
            /\ shouldReconnect' = r.shouldReconnect
            /\ reconnectTimeout' = r.reconnectTimeout
            /\ sockets' = r.sockets
            /\ timers' = r.timers
            /\ sync' = r.sync
    /\ UNCHANGED managerVars

\* the embedder calls the cleanup function
CallCleanup ==
    /\ \E r \in {Cleanup(Client)} :
           /\ ws' = r.ws
           /\ shouldReconnect' = r.shouldReconnect
           /\ reconnectTimeout' = r.reconnectTimeout
           /\ sockets' = r.sockets
           /\ timers' = r.timers
           /\ sync' = r.sync
    /\ UNCHANGED managerVars

SyncNext ==
    \/ SocketOpen
    \/ SocketMessage
    \/ SocketError
    \/ SocketClose
    \/ TimerFires
    \/ CallCleanup

SyncSpec == SyncInit /\ [][SyncNext]_vars

\* a timeout that is set and not cleared expires; a socket whose connection
\* failed or is being closed gets its close event
SyncLive ==
    /\ SyncSpec
    /\ WF_vars(TimerFires)
    /\ WF_vars(SocketClose)

\* --------------------------------------------------------------- claims
\* the shots whose action is started and neither paused nor stopped
Running == {id \in ShotIds : IsRunning(shots[id])}

\* the manager after a call, ready for the next call
Next0(r) == [r EXCEPT !.ev = Ev0]

\* a further call can be made on the manager: the handlers are judged on the
\* calls that the specification makes
CanCall == hist.calls < MaxCalls

\* the program state of the manager m (no history)
Program(m) ==
    <<m.shots, m.sequenceDefined, m.sequence, m.currentShotIndex, m.isPlaying,
      m.targetCamera, m.frameScripts, m.playheadTime, m.onShotsCompleted, m.loop>>

\* C1: while a sequence is playing (after a successful play(), before
\* completion or scrub), exactly one shot is in the advancing state and it is
\* the shot at the current index -- stated here for the states in which the
\* sequence is still the one play() started and no shot outside it was left
\* running, so that only play() called again in the middle of playback is at
\* stake.
C1_ExactlyOneAdvancing ==
    (/\ isPlaying
     /\ sequence = hist.playSeq
     /\ \A id \in Running : \E k \in 1..Len(sequence) : sequence[k] = id) =>
        /\ currentShotIndex \in 0..(Len(sequence) - 1)
        /\ Running = {sequence[currentShotIndex + 1]}

\* C2: the current shot index is -1 or a valid index into the configured
\* sequence, in every reachable state.
C2_IndexValid ==
    \/ currentShotIndex = -1
    \/ (0 <= currentShotIndex /\ currentShotIndex < Len(sequence))

\* C3: with loop=false (no loop restart in the session) the shots are started
\* in index order 0,1,..,n-1 with none skipped or repeated; when the last shot
\* finishes playing becomes false, the completion callback (if any) is invoked
\* exactly once and no shot is started; and while not playing no call but
\* play() starts a shot or invokes the completion callback.
C3_StartedInOrder ==
    hist.wraps = 0 =>
        /\ \A k \in 1..Len(hist.startLog) : hist.startLog[k] = k - 1
        /\ isPlaying => Len(hist.startLog) = currentShotIndex + 1
        /\ hist.completions = 1 => Len(hist.startLog) = currentShotIndex

C3_LastShotFinishes ==
    CanCall =>
        \A delta \in Deltas :
            \A r \in {UpdateOp(St, delta)} :
                (r.ev.finished > 0 /\ ~loop /\ currentShotIndex = Len(sequence) - 1) =>
                    /\ ~r.isPlaying
                    /\ r.ev.finished = 1
                    /\ r.ev.completedNow = (IF onShotsCompleted THEN 1 ELSE 0)
                    /\ r.ev.started = <<>>
                    /\ r.hist.completions = 1

C3_CompletedOnce ==
    /\ hist.completions <= 1
    /\ hist.completedCalls =
           (IF hist.completions = 1 /\ onShotsCompleted THEN 1 ELSE 0)
    /\ hist.completions = 1 => ~isPlaying

C3_NothingStartsWhileStopped ==
    (CanCall /\ ~isPlaying) =>
        /\ \A delta \in Deltas :
               \A r \in {UpdateOp(St, delta)} :
                   Program(r) = Program(St) /\ r.ev = Ev0
        /\ \A time \in ScrubTimes :
               \A r \in {ScrubOp(St, time)} :
                   r.ev.started = <<>> /\ r.ev.completedNow = 0 /\ ~r.isPlaying
        /\ \A names \in ConfigChoices :
               \A r \in {ConfigOp(St, names)} :
                   r.ev.started = <<>> /\ r.ev.completedNow = 0 /\ ~r.isPlaying

C3_NonLoopCompletion ==
    /\ C3_StartedInOrder
    /\ C3_LastShotFinishes
    /\ C3_CompletedOnce
    /\ C3_NothingStartsWhileStopped

\* a three-shot sequence has run to completion and the callback was invoked
C3_Witness ==
    /\ hist.completions = 1
    /\ hist.completedCalls = 1
    /\ hist.wraps = 0
    /\ hist.startLog = <<0, 1, 2>>
    /\ ~isPlaying

\* C4: with loop=true, when the last shot of the sequence finishes the index
\* goes back to 0 and the first shot is started at local time 0, playing
\* stays true and the completion callback is not invoked, however many times
\* the sequence has already restarted.
C4_LoopRestart ==
    /\ CanCall =>
       \A delta \in Deltas :
           \A r \in {UpdateOp(St, delta)} :
               (r.ev.finished > 0 /\ loop /\ currentShotIndex = Len(sequence) - 1) =>
                   /\ r.currentShotIndex = 0
                   /\ r.isPlaying
                   /\ r.ev.started = <<0>>
                   /\ r.shots[sequence[1]].time = 0
                   /\ IsRunning(r.shots[sequence[1]])
                   /\ r.ev.completedNow = 0
                   /\ r.hist.completedCalls = 0
                   /\ r.hist.wraps = hist.wraps + 1
    /\ isPlaying => hist.completedCalls = 0
    /\ hist.wraps > 0 /\ hist.completions = 0 => hist.completedCalls = 0

\* a two-shot sequence is playing its first shot again, after a restart
C4_Witness ==
    /\ hist.wraps >= 1
    /\ isPlaying
    /\ loop
    /\ sequence = hist.playSeq
    /\ Len(sequence) = 2
    /\ hist.startLog = <<0, 1, 0>>
    /\ currentShotIndex = 0
    /\ shots[sequence[1]].time = 0
    /\ IsRunning(shots[sequence[1]])

\* C5: within one play() session each frame script is invoked at most once,
\* only by an update() whose playhead after the advance is strictly greater
\* than the script's trigger time frame / baseFPS, and by no other call; its
\* fired-flag is set exactly when it was invoked in this session, so every
\* successful play() leaves all flags cleared.
C5_FiredInSession ==
    \A i \in 1..Len(frameScripts) :
        /\ hist.fireCount[i] <= 1
        /\ frameScripts[i].called <=> (hist.fireCount[i] = 1)

C5_FiredOnlyPastTrigger ==
    CanCall =>
        /\ \A delta \in Deltas :
               \A r \in {UpdateOp(St, delta)} :
                   \A k \in 1..Len(r.ev.fired) :
                       LET script == frameScripts[r.ev.fired[k]]
                       IN  /\ script.frame < r.playheadTime * script.baseFPS
                           /\ r.playheadTime = playheadTime + delta
                           /\ ~script.called
        /\ \A time \in ScrubTimes : ScrubOp(St, time).ev.fired = <<>>
        /\ \A names \in ConfigChoices : ConfigOp(St, names).ev.fired = <<>>
        /\ \A onCompleted \in BOOLEAN :
               \A r \in {PlayOp(St, onCompleted)} :
                   /\ r.ev.fired = <<>>
                   /\ r.ev.ret => \A i \in 1..Len(r.frameScripts) :
                                      ~r.frameScripts[i].called

C5_FrameScriptOncePerSession ==
    C5_FiredInSession /\ C5_FiredOnlyPastTrigger

\* a frame script has been invoked in the session, which still plays
C5_Witness ==
    /\ Len(frameScripts) >= 1
    /\ hist.fireCount[1] = 1
    /\ frameScripts[1].called
    /\ isPlaying

\* effective durations of the first k shots of the configured sequence
RECURSIVE StartOf(_)
StartOf(k) ==
    IF k = 0 THEN 0
    ELSE StartOf(k - 1) + GetEffectiveDuration(shots[sequence[k]], sequence[k])

\* C6: for a non-empty sequence (all effective durations positive) and
\* t >= 0, scrub(t) selects the one shot i whose interval
\* [start_i, start_i + effectiveDuration_i) contains t and puts it, paused,
\* at local effective time t - start_i; at or beyond the total duration it
\* selects the last shot at its end.  Exactly one interval contains t.
C6_ScrubSelectsInterval ==
    (CanCall /\ sequenceDefined /\ Len(sequence) > 0) =>
        \A t \in ScrubTimes :
            \A r \in {ScrubOp(St, t)} :
            LET n     == Len(sequence)
                i     == r.ev.sel[1]
                id    == sequence[i + 1]
                sh    == r.shots[id]
                total == StartOf(n)
            IN  /\ i \in 0..(n - 1)
                /\ sh.active /\ sh.paused
                /\ r.ev.synced = <<<<id, sh.time>>>>
                /\ IF t < total
                   THEN /\ StartOf(i) <= t /\ t < StartOf(i + 1)
                        /\ \A k \in 0..(n - 1) :
                               (StartOf(k) <= t /\ t < StartOf(k + 1)) => k = i
                        /\ r.ev.sel[2] = t - StartOf(i)
                        /\ sh.time * sh.timeScale.den =
                               (t - StartOf(i)) * Unit * sh.timeScale.num
                   ELSE /\ i = n - 1
                        /\ sh.time = ClipDuration[id] * Unit

\* scrub has selected the second of two different shots, inside its interval,
\* at a local time that only a time-scale other than 1 gives
C6_Witness ==
    /\ ~isPlaying
    /\ Len(sequence) = 2
    /\ sequence[1] # sequence[2]
    /\ LET sh == shots[sequence[2]]
       IN  /\ sh.active /\ sh.paused
           /\ sh.time > 0 /\ sh.time < ClipDuration[sequence[2]] * Unit
           /\ sh.timeScale # Fraction(1, 1)
           /\ sh.time % Unit # 0
           /\ (sh.time * sh.timeScale.den) % (Unit * sh.timeScale.num) = 0
    /\ ~shots[sequence[1]].active

\* C7: scrub(t) leaves the playhead and the fired-flags unchanged and invokes
\* no shot-finish handler, completion callback or frame script; scrub(t)
\* called twice in a row selects the same shot at the same local time, copies
\* the same pose to the camera and leaves the same state as scrub(t) once.
C7_ScrubNoSideEffectIdempotent ==
    CanCall =>
        \A t \in ScrubTimes :
            \A r \in {ScrubOp(St, t)} :
            \A r2 \in {ScrubOp(Next0(r), t)} :
                /\ r.playheadTime = playheadTime
                /\ r.frameScripts = frameScripts
                /\ r.ev.finished = 0
                /\ r.ev.completedNow = 0
                /\ r.ev.fired = <<>>
                /\ r.ev.started = <<>>
                /\ [r.hist EXCEPT !.playSeq = <<>>] = [hist EXCEPT !.playSeq = <<>>]
                /\ r2.ev = r.ev
                /\ Program(r2) = Program(r)

\* scrub has interrupted a playback whose playhead had advanced, and left a
\* shot paused inside its clip
C7_Witness ==
    /\ ~isPlaying
    /\ sequenceDefined
    /\ playheadTime > 0
    /\ hist.completions = 0
    /\ hist.playSeq = <<>>
    /\ hist.startLog # <<>>
    /\ \E id \in ShotIds :
           /\ shots[id].active /\ shots[id].paused
           /\ shots[id].time > 0 /\ shots[id].time < ClipDuration[id] * Unit

\* C8: after scrub(t), from any reachable state, playing is false, no shot is
\* advancing, every shot of the sequence but the selected one is stopped, and
\* a following update(delta) changes nothing.
C8_ScrubStopsPlayback ==
    \A t \in ScrubTimes :
        \A r \in {ScrubOp(St, t)} :
            /\ ~r.isPlaying
            /\ \A id \in ShotIds : ~IsRunning(r.shots[id])
            /\ \A delta \in Deltas :
                   \A u \in {UpdateOp(Next0(r), delta)} :
                       Program(u) = Program(r) /\ u.ev = Ev0

\* C9: config() called while a sequence is playing does not affect the
\* playback: the next update(delta) does what it would have done with the
\* sequence play() started -- same shot advanced, same pose copied to the
\* output camera, same transition, completion or loop.
C9_ConfigDoesNotAffectPlayback ==
    isPlaying =>
        \A delta \in Deltas :
            \A r \in {UpdateOp(St, delta)} :
            \A q \in {UpdateOp([St EXCEPT !.sequence = hist.playSeq], delta)} :
                /\ r.shots = q.shots
                /\ r.currentShotIndex = q.currentShotIndex
                /\ r.isPlaying = q.isPlaying
                /\ r.playheadTime = q.playheadTime
                /\ r.ev = q.ev

\* C10: no call raises a fault (update is the one call of the model that can)
C10_NoFault ==
    \A delta \in Deltas : ~UpdateOp(St, delta).ev.fault

\* C11: play() called when no sequence has been configured, or when the
\* configured sequence is empty, is a no-op: playing, the current index, the
\* playhead, the fired-flags, the stored completion callback and every shot
\* are unchanged, no shot is started, and calling it again gives the same.
C11_PlayRefusedNoOp ==
    (CanCall /\ (~sequenceDefined \/ Len(sequence) = 0)) =>
        \A onCompleted \in BOOLEAN :
            \A r \in {PlayOp(St, onCompleted)} :
                /\ Program(r) = Program(St)
                /\ r.hist = hist
                /\ r.ev = [Ev0 EXCEPT !.ret = FALSE]
                /\ \A again \in BOOLEAN :
                       \A r2 \in {PlayOp(Next0(r), again)} :
                           Program(r2) = Program(St) /\ r2.hist = hist /\ r2.ev = r.ev

\* play() has just been refused on an empty sequence, configured in the
\* middle of a playback whose playhead had advanced
C11_Witness ==
    /\ hist.note = "play"
    /\ sequenceDefined
    /\ sequence = <<>>
    /\ isPlaying
    /\ playheadTime > 0

\* C12: a successful play(), from any state (idle, playing at any index,
\* scrubbed, completed), resets the playhead to 0, clears every fired-flag,
\* sets playing=true and the current index to 0, and starts the first shot of
\* the sequence at local time 0; so play() after scrub() restarts from shot 0
\* and not from the scrubbed shot or position.
C12_PlayRestarts ==
    (CanCall /\ sequenceDefined /\ Len(sequence) > 0) =>
        \A onCompleted \in BOOLEAN :
            \A r \in {PlayOp(St, onCompleted)} :
            LET first == r.shots[sequence[1]]
            IN  /\ r.ev.ret
                /\ r.playheadTime = 0
                /\ Len(r.frameScripts) = Len(frameScripts)
                /\ \A i \in 1..Len(r.frameScripts) :
                       /\ ~r.frameScripts[i].called
                       /\ r.frameScripts[i].frame = frameScripts[i].frame
                       /\ r.frameScripts[i].baseFPS = frameScripts[i].baseFPS
                /\ r.isPlaying
                /\ r.currentShotIndex = 0
                /\ r.onShotsCompleted = onCompleted
                /\ r.sequence = sequence
                /\ r.ev.started = <<0>>
                /\ first.time = 0
                /\ IsRunning(first)
                /\ first.hasFinish
                /\ first.timeScale = shots[sequence[1]].timeScale
                /\ \A id \in ShotIds \ {sequence[1]} : r.shots[id] = shots[id]
                /\ r.ev.finished = 0 /\ r.ev.completedNow = 0 /\ r.ev.fired = <<>>

\* play() has restarted the sequence at its first shot while another shot is
\* still where scrub() left it, paused inside its clip
C12_Witness ==
    /\ Len(sequence) > 0
    /\ isPlaying
    /\ currentShotIndex = 0
    /\ playheadTime = 0
    /\ hist.startLog = <<0>>
    /\ hist.note = ""
    /\ shots[sequence[1]].time = 0
    /\ IsRunning(shots[sequence[1]])
    /\ \E id \in ShotIds \ {sequence[1]} :
           /\ shots[id].active /\ shots[id].paused
           /\ shots[id].time > 0 /\ shots[id].time < ClipDuration[id] * Unit

\* C13: setShotDuration(name, d) returns true exactly when some shot known to
\* the manager (in the configured sequence or not) has clip name `name`; on
\* true that shot's time-scale becomes intrinsicDuration / d, so that its
\* effective duration equals d, and no other shot's time-scale changes; on
\* false no time-scale changes and no fault is raised.
C13_SetShotDuration ==
    CanCall =>
        \A name \in Names, d \in 1..MaxNewDuration :
            \A r \in {SetShotDurationOp(St, name, d)} :
                /\ r.ev.ret <=> (\E id \in DOMAIN shots : id = name)
                /\ ~r.ev.fault
                /\ r.ev = [Ev0 EXCEPT !.ret = r.ev.ret]
                /\ r.hist = hist
                /\ IF r.ev.ret
                   THEN /\ r.shots[name].timeScale.num * d =
                               ClipDuration[name] * r.shots[name].timeScale.den
                        /\ GetEffectiveDuration(r.shots[name], name) = d
                        /\ \A id \in ShotIds \ {name} : r.shots[id] = shots[id]
                        /\ [r.shots[name] EXCEPT !.timeScale = shots[name].timeScale]
                               = shots[name]
                        /\ Program([r EXCEPT !.shots = shots]) = Program(St)
                   ELSE Program(r) = Program(St)

\* a shot that is not in the configured sequence has been given a duration
\* other than its clip's
C13_Witness ==
    /\ sequenceDefined
    /\ Len(sequence) > 0
    /\ \E id \in ShotIds :
           /\ \A k \in 1..Len(sequence) : sequence[k] # id
           /\ shots[id].timeScale # Fraction(1, 1)
           /\ GetEffectiveDuration(shots[id], id) # ClipDuration[id]

\* C14: after config(names) the configured sequence is exactly the shots
\* resolved from names, in the order of names, with the names that match no
\* clip dropped and repeated names kept as repeated entries; the previous
\* sequence is fully replaced; and config leaves the registered frame
\* scripts, their fired-flags, the playhead, playing and the current index
\* unchanged.
C14_ConfigReplacesSequence ==
    CanCall =>
        \A names \in ConfigChoices :
            \A r \in {ConfigOp(St, names)} :
            LET known == SelectSeq(names, LAMBDA n : \E id \in DOMAIN shots : id = n)
            IN  /\ r.sequenceDefined
                /\ r.sequence = known
                /\ r.frameScripts = frameScripts
                /\ r.playheadTime = playheadTime
                /\ r.isPlaying = isPlaying
                /\ r.currentShotIndex = currentShotIndex
                /\ r.shots = shots
                /\ r.onShotsCompleted = onShotsCompleted
                /\ r.hist = hist
                /\ r.ev = Ev0

\* config() has replaced, in the middle of a playback, the sequence play()
\* started by one with a repeated shot
C14_Witness ==
    /\ isPlaying
    /\ sequence = <<"a", "b", "a">>
    /\ hist.playSeq # <<>>
    /\ hist.playSeq # sequence
    /\ playheadTime > 0
    /\ currentShotIndex = 0

\* no socket of the client is connecting, open or closing
NoLiveSocket == \A i \in 1..Len(sockets) : sockets[i] = "closed"

\* C15: reconnecting client: whenever the connection has closed, or creating
\* the socket has failed, and the cleanup function has not been called, a
\* retry is pending and a new connection attempt is eventually made (unless
\* cleanup is called first); this holds after every failure, whatever the
\* number of attempts already made.
C15_RetriesAfterEveryFailure ==
    /\ [](shouldReconnect /\ NoLiveSocket => reconnectTimeout \in timers)
    /\ \A n \in 1..(MaxAttempts - 1) :
           (shouldReconnect /\ NoLiveSocket /\ Attempts(Client) = n)
               ~> (Attempts(Client) > n \/ ~shouldReconnect)

\* the client is connecting again after a connection that closed and after
\* a socket that could not be created
C15_Witness ==
    /\ shouldReconnect
    /\ sync.createFailures >= 1
    /\ Len(sockets) >= 2
    /\ sockets[1] = "closed"
    /\ sockets[Len(sockets)] = "connecting"
    /\ ws = Len(sockets)

\* C16: reconnecting client: once the cleanup function has been called, in
\* whatever state (socket connecting, open, closed, or a reconnect timer
\* pending), the current socket is closed (closing, and eventually closed),
\* no reconnect timer is pending, and no connection is created and no timer
\* is set ever after, also when the close event arrives after cleanup.
C16_CleanupStopsReconnecting ==
    /\ [](~shouldReconnect =>
             /\ timers = {}
             /\ \A i \in 1..Len(sockets) : sockets[i] \in {"closing", "closed"})
    /\ [][~shouldReconnect =>
             /\ ~shouldReconnect'
             /\ Len(sockets') = Len(sockets)
             /\ sync'.createFailures = sync.createFailures
             /\ sync'.timersSet = sync.timersSet
             /\ timers' = {}]_vars
    /\ (~shouldReconnect) ~> (~shouldReconnect /\ NoLiveSocket)

\* cleanup was called while a socket, not the first, was connecting or open,
\* and the close event of that socket has arrived since
C16_Witness ==
    /\ ~shouldReconnect
    /\ Len(sockets) >= 2
    /\ NoLiveSocket
    /\ timers = {}
    /\ sync.timersSet < Attempts(Client)

\* place of a step in update(): 1 the pose copy, 2 the playhead advance, 3 the
\* advance of the active shot with the transition it may trigger, 4 the
\* frame scripts
Phase(step) ==
    CASE step.what = "sync"     -> 1
      [] step.what = "playhead" -> 2
      [] step.what = "script"   -> 4
      [] OTHER                  -> 3

C18_UpdateNoOpWhenStopped ==
    /\ (CanCall /\ (~isPlaying \/ ~sequenceDefined \/ currentShotIndex < 0)) =>
           \A delta \in Deltas :
               \A r \in {UpdateOp(St, delta)} :
                   /\ Program(r) = Program(St)
                   /\ r.hist = hist
                   /\ r.ev = Ev0
    /\ hist.completions = 1 =>
           /\ ~isPlaying
           /\ \A i \in 1..Len(frameScripts) :
                  frameScripts[i].called =>
                      frameScripts[i].frame < playheadTime * frameScripts[i].baseFPS

\* update() has just returned at its guard after a non-loop completion,
\* with a frame script that has not fired and that the advance of the
\* playhead by a delta would have passed
C18_Witness ==
    /\ hist.note = "update"
    /\ hist.completions = 1
    /\ ~isPlaying
    /\ playheadTime > 0
    /\ Len(frameScripts) = 1
    /\ ~frameScripts[1].called
    /\ hist.fireCount[1] = 0
    /\ frameScripts[1].frame < (playheadTime + MaxDelta) * frameScripts[1].baseFPS

\* C19: a single update(delta) call triggers at most one shot transition,
\* however large delta is: the current index changes by at most one step (i
\* to i+1, or last to 0 on loop, or to completion), the newly started shot
\* begins at local time 0, and the part of delta left over after the end of
\* the finished shot is not carried into the next shot, while the playhead
\* advances by the full delta.
C19_OneTransitionPerUpdate ==
    CanCall =>
        \A delta \in Deltas :
            \A r \in {UpdateOp(St, delta)} :
            LET n == Len(sequence)
            IN  /\ r.ev.finished <= 1
                /\ r.ev.finished = 0 =>
                       /\ r.currentShotIndex = currentShotIndex
                       /\ r.isPlaying = isPlaying
                       /\ r.ev.started = <<>>
                       /\ r.ev.completedNow = 0
                /\ r.ev.finished = 1 =>
                       \/ /\ currentShotIndex + 1 < n
                          /\ r.currentShotIndex = currentShotIndex + 1
                          /\ r.isPlaying
                          /\ r.ev.started = <<currentShotIndex + 1>>
                       \/ /\ currentShotIndex + 1 >= n /\ loop
                          /\ r.currentShotIndex = 0
                          /\ r.isPlaying
                          /\ r.ev.started = <<0>>
                       \/ /\ currentShotIndex + 1 >= n /\ ~loop
                          /\ r.currentShotIndex = currentShotIndex + 1
                          /\ ~r.isPlaying
                          /\ r.ev.started = <<>>
                /\ \A k \in 1..Len(r.ev.started) :
                       LET id == sequence[r.ev.started[k] + 1]
                       IN  /\ r.shots[id].time = 0
                           /\ IsRunning(r.shots[id])
                /\ \A id \in ShotIds :
                       (currentShotIndex \notin 0..(n - 1) \/ id # sequence[currentShotIndex + 1])
                           => /\ r.shots[id].time \in {shots[id].time, 0}
                              /\ r.shots[id].pose = shots[id].pose
                /\ r.ev.finished = 1 =>
                       r.playheadTime = playheadTime + delta

\* config, play and one update whose delta went past the end of the first
\* shot: the second shot is current and at local time 0
C19_Witness ==
    /\ hist.calls = 3
    /\ isPlaying
    /\ Len(sequence) >= 2
    /\ sequence[1] # sequence[2]
    /\ currentShotIndex = 1
    /\ hist.startLog = <<0, 1>>
    /\ playheadTime > ClipDuration[sequence[1]]
    /\ shots[sequence[1]].timeScale = Fraction(1, 1)
    /\ shots[sequence[2]].time = 0
    /\ IsRunning(shots[sequence[2]])

\* C20: for a negative time t, scrub(t, cam) on a non-empty sequence matches
\* no shot interval and takes the same branch as a time beyond the end: it
\* selects the last shot of the sequence at its terminal local time (not the
\* first shot at time 0); and the clip-local time set by scrubTo always lies
\* within [0, intrinsic clip duration].
C20_NegativeScrubSelectsLast ==
    (CanCall /\ sequenceDefined /\ Len(sequence) > 0) =>
        /\ \A t \in NegativeScrubTimes :
               \A r \in {ScrubOp(St, t)} :
               \A beyond \in {ScrubOp(St, StartOf(Len(sequence)) + 1)} :
               LET n    == Len(sequence)
                   last == sequence[n]
               IN  /\ FindTarget(St, 0, 0, t) = <<>>
                   /\ r.ev.sel[1] = n - 1
                   /\ r.ev.sel[2] = GetEffectiveDuration(shots[last], last)
                   /\ r.shots[last].time = ClipDuration[last] * Unit
                   /\ r.shots[last].active /\ r.shots[last].paused
                   /\ r.ev.synced = <<<<last, ClipDuration[last] * Unit>>>>
                   /\ sequence[1] # last => ~r.shots[sequence[1]].active
                   /\ Program(r) = Program(beyond)
                   /\ r.ev = beyond.ev
        /\ \A t \in ScrubTimes \cup NegativeScrubTimes :
               \A r \in {ScrubOp(St, t)} :
               LET id == sequence[r.ev.sel[1] + 1]
               IN  /\ 0 <= r.shots[id].time
                   /\ r.shots[id].time <= ClipDuration[id] * Unit

\* scrub() with a negative time has just left the last of two different
\* shots paused at its end, and the first one stopped
C20_Witness ==
    /\ hist.note = "scrub"
    /\ ~isPlaying
    /\ Len(sequence) >= 2
    /\ sequence[1] # sequence[Len(sequence)]
    /\ LET last == sequence[Len(sequence)]
       IN  /\ shots[last].active /\ shots[last].paused
           /\ shots[last].time = ClipDuration[last] * Unit
           /\ shots[last].pose = ClipDuration[last] * Unit
    /\ ~shots[sequence[1]].active

\* sockets that are not closed (connecting, open or closing)
LiveSockets == {i \in 1..Len(sockets) : sockets[i] # "closed"}

\* C21: reconnecting client: in every reachable state, under any
\* interleaving of open, message, error and close events, timer expiry and
\* the cleanup call, there is at most one pending reconnect timer and at most
\* one socket that is not closed; a new socket is created only after the
\* previous one has closed or failed to be created (every step that creates
\* a socket creates one, from a state in which no socket is live).
C21_OneTimerOneSocket ==
    /\ [](/\ Cardinality(timers) <= 1
          /\ Cardinality(LiveSockets) <= 1)
    /\ [][Len(sockets') # Len(sockets) =>
             /\ Len(sockets') = Len(sockets) + 1
             /\ NoLiveSocket
             /\ \A i \in 1..Len(sockets) : sockets'[i] = sockets[i]
             /\ ws' = Len(sockets')]_vars

\* the first socket closed, the retry failed to create a socket, and the
\* retry after that created the second socket, which is open: no timer is
\* pending and the second socket is the only live one
C21_Witness ==
    /\ shouldReconnect
    /\ sockets = <<"closed", "open">>
    /\ sync.createFailures = 1
    /\ sync.timersSet = 2
    /\ timers = {}
    /\ ws = 2
====
